---------------------------- MODULE Spec2Model ----------------------------
(***************************************************************************)
(* Model of the options page of focus-redirector (src/options.js): the     *)
(* rule validator, the metrics/settings normalizers and the configuration  *)
(* store that keeps rules, metrics and settings in step with               *)
(* chrome.storage.                                                         *)
(*                                                                         *)
(* JavaScript strings are sequences of one-character strings, so that      *)
(* trim, toLowerCase, split and the URL parser are computed and not        *)
(* assumed.  JavaScript values that cross the storage boundary are tagged  *)
(* records (JVal).  Numbers are integers counting thousandths (1000 is the *)
(* number 1).                                                              *)
(***************************************************************************)
EXTENDS Integers, Sequences, FiniteSets

VARIABLES
    hasSync,      \* Boolean(chrome.storage.sync): fixed for the life of the page
    rules,        \* let rules (line 18)
    metrics,      \* let metrics (line 19)
    settings,     \* let settings (line 20)
    rows,         \* the <tr> rows of rulesBody: captured rule id and the inputs' values
    formMessage,  \* formMessage: text class ("", "error", "success") and what it reports
    storage,      \* chrome.storage: area -> key -> stored value
    reads,        \* the startup reads in flight: loadRules, loadMetrics, loadSettings
    writes,       \* storage.set calls issued and not yet completed
    notifs,       \* onChanged notifications not yet delivered to this page
    nextId,       \* how many ids makeId has minted
    uiEvents,     \* UI events handled so far
    extWrites,    \* writes made by other processes so far
    lastOp,       \* the handler of the page that ran last, and what it decided
    draft,        \* validator harness: the draft handed to validateRule
    validation    \* validator harness: what validateRule returned for it

vars == <<hasSync, rules, metrics, settings, rows, formMessage, storage, reads,
          writes, notifs, nextId, uiEvents, extWrites, lastOp, draft, validation>>

storeVars == <<hasSync, rules, metrics, settings, rows, formMessage, storage, reads,
               writes, notifs, nextId, uiEvents, extWrites, lastOp>>

-----------------------------------------------------------------------------
(* Bounds of the model.                                                    *)

MaxUiEvents == 2
MaxExtWrites == 1
MaxWrites == 1
MaxNotifs == 1
\* The largest redirect count whose duration is rendered.
MaxRedirects == 170

-----------------------------------------------------------------------------
(* Strings.                                                                *)

STORAGE_KEY == "redirect_rules"
METRICS_KEY == "redirect_metrics"
SETTINGS_KEY == "redirect_settings"

LowerLetters == {"a", "b", "c", "d", "f", "h", "p", "s", "t", "x"}
Digits == {"0", "1", "2", "3", "4", "5", "6", "7", "8", "9"}

\* String.prototype.toLowerCase, one character.
LowerChar(c) ==
    CASE c = "A" -> "a" [] c = "B" -> "b" [] c = "C" -> "c" [] c = "D" -> "d"
      [] c = "F" -> "f" [] c = "H" -> "h" [] c = "P" -> "p" [] c = "S" -> "s"
      [] c = "T" -> "t" [] c = "X" -> "x"
      [] OTHER -> c

toLowerCase(s) == [i \in 1..Len(s) |-> LowerChar(s[i])]

RECURSIVE trimStart(_)
trimStart(s) == IF s # <<>> /\ Head(s) = " " THEN trimStart(Tail(s)) ELSE s

RECURSIVE trimEnd(_)
trimEnd(s) ==
    IF s # <<>> /\ s[Len(s)] = " " THEN trimEnd(SubSeq(s, 1, Len(s) - 1)) ELSE s

\* String.prototype.trim.
trim(s) == trimEnd(trimStart(s))

\* String.prototype.includes, for a one-character needle.
includes(s, c) == \E i \in 1..Len(s) : s[i] = c

\* Index of the first character of s that is in set cs, or Len(s) + 1.
RECURSIVE FirstIn(_, _, _)
FirstIn(s, cs, i) ==
    IF i > Len(s) THEN Len(s) + 1
    ELSE IF s[i] \in cs THEN i ELSE FirstIn(s, cs, i + 1)

\* String.prototype.split, for a one-character separator.
RECURSIVE split(_, _)
split(s, c) ==
    LET i == FirstIn(s, {c}, 1) IN
    IF i > Len(s) THEN <<s>>
    ELSE <<SubSeq(s, 1, i - 1)>> \o split(SubSeq(s, i + 1, Len(s)), c)

-----------------------------------------------------------------------------
(* JavaScript values as they are stored, notified and coerced.             *)

JUndefined == [t |-> "undefined", s |-> <<>>, n |-> 0, b |-> FALSE]
JNull == [t |-> "null", s |-> <<>>, n |-> 0, b |-> FALSE]
JBool(b) == [t |-> "boolean", s |-> <<>>, n |-> 0, b |-> b]
JNum(n) == [t |-> "number", s |-> <<>>, n |-> n, b |-> FALSE]
JStr(s) == [t |-> "string", s |-> s, n |-> 0, b |-> FALSE]
\* A plain object (a per_rule mapping); n tells two contents apart.
JObj(n) == [t |-> "object", s |-> <<>>, n |-> n, b |-> FALSE]
\* An array; where a coercion looks into it (String, Number) it is [].
JArr == [t |-> "array", s |-> <<>>, n |-> 0, b |-> FALSE]

\* typeof v === "object": true of objects, arrays and null.
TypeofObject(v) == v.t \in {"object", "array", "null"}

\* ToBoolean: what `v || d`, `!v` and Boolean(v) test.
Truthy(v) ==
    CASE v.t = "boolean" -> v.b
      [] v.t = "number" -> v.n # 0
      [] v.t = "string" -> v.s # <<>>
      [] v.t \in {"object", "array"} -> TRUE
      [] OTHER -> FALSE

\* One decimal digit as a string, for k in 0..9.
DigitStr(k) == <<"0", "1", "2", "3", "4", "5", "6", "7", "8", "9">>[k + 1]

\* String(v) for the values the model stores: strings, booleans, undefined,
\* null, plain objects, the empty array and the whole numbers 0..9.
JString(v) ==
    CASE v.t = "string" -> v.s
      [] v.t = "boolean" ->
            IF v.b THEN <<"t", "r", "u", "e">> ELSE <<"f", "a", "l", "s", "e">>
      [] v.t = "number" -> <<DigitStr(v.n \div 1000)>>
      [] v.t = "null" -> <<"n", "u", "l", "l">>
      [] v.t = "undefined" -> <<"u", "n", "d", "e", "f", "i", "n", "e", "d">>
      [] v.t = "array" -> <<>>
      [] OTHER -> <<"[", "o", "b", "j", "e", "c", "t", " ", "O", "b", "j", "e", "c", "t", "]">>

-----------------------------------------------------------------------------
(* Validator (lines 64-155).                                               *)

\* makeId: the k-th id minted by this page.  crypto.randomUUID gives ids that
\* differ from each other and from every stored id.
makeId(k) == <<"m", DigitStr(k)>>

\* The result of validateHostname / validateTargetUrl: {valid, value, hostname}
\* or {valid, error}.
Ok(value, hostname) == [valid |-> TRUE, value |-> value, hostname |-> hostname, error |-> ""]
Err(error) == [valid |-> FALSE, value |-> <<>>, hostname |-> <<>>, error |-> error]

\* /^[a-z0-9-]+$/.test(label)
LabelCharsOk(label) ==
    /\ label # <<>>
    /\ \A i \in 1..Len(label) : label[i] \in LowerLetters \cup Digits \cup {"-"}

\* The loop without the test of a leading or trailing hyphen.
RECURSIVE LabelError_NoHyphenTest(_)
LabelError_NoHyphenTest(parts) ==
    IF parts = <<>> THEN ""
    ELSE LET label == Head(parts) IN
         IF label = <<>> THEN "Hostname labels cannot be empty."
         ELSE IF ~LabelCharsOk(label)
              THEN "Hostname can only use letters, numbers, dots, and hyphens."
         ELSE LabelError_NoHyphenTest(Tail(parts))

\* The first label of parts that fails a check of the loop of lines 95-105, as
\* the error it returns; "" when every label passes.
RECURSIVE LabelError(_)
LabelError(parts) ==
    IF parts = <<>> THEN ""
    ELSE LET label == Head(parts) IN
         IF label = <<>> THEN "Hostname labels cannot be empty."
         ELSE IF ~LabelCharsOk(label)
              THEN "Hostname can only use letters, numbers, dots, and hyphens."
         ELSE IF label[1] = "-" \/ label[Len(label)] = "-"
              THEN "Hostname labels cannot start or end with hyphen."
         ELSE LabelError(Tail(parts))

validateHostname(hostname) ==
    LET normalized == toLowerCase(trim(hostname))
        parts == split(normalized, ".")
    IN  IF normalized = <<>> THEN Err("Hostname is required.")
        ELSE IF \/ includes(normalized, "/") \/ includes(normalized, " ")
                \/ includes(normalized, ":") \/ includes(normalized, "?")
             THEN Err("Hostname must not include scheme, path, spaces, or query.")
        ELSE IF Len(parts) < 2 THEN Err("Hostname must include at least one dot.")
        ELSE IF LabelError(parts) # "" THEN Err(LabelError(parts))
        ELSE Ok(normalized, normalized)

\* new URL(trimmed), line 119: the WHATWG URL parser on the strings of the model
\* (ASCII letters, digits, and : / . - ? and space; no userinfo, no
\* percent-escape, no host whose last label is a number).  A scheme is
\* letters up to the first ":"; without one there is no URL (no base).  After
\* a special scheme (http, https, ftp) any run of "/" is skipped and the host
\* runs to the next "/" or "?"; an empty host or a forbidden host character
\* fails; the host is lowercased, a default port is dropped and an empty path
\* is "/".  The result is {ok, protocol, hostname, href}.
SpecialSchemes == {<<"h", "t", "t", "p">>, <<"h", "t", "t", "p", "s">>, <<"f", "t", "p">>}

DefaultPort(scheme) ==
    CASE scheme = <<"h", "t", "t", "p">> -> <<"8", "0">>
      [] scheme = <<"h", "t", "t", "p", "s">> -> <<"4", "4", "3">>
      [] OTHER -> <<"2", "1">>

RECURSIVE SkipSlashes(_)
SkipSlashes(s) == IF s # <<>> /\ Head(s) = "/" THEN SkipSlashes(Tail(s)) ELSE s

NoUrl == [ok |-> FALSE, protocol |-> <<>>, hostname |-> <<>>, href |-> <<>>]

ParseUrl(input) ==
    LET colon == FirstIn(input, {":"}, 1)
        scheme == toLowerCase(SubSeq(input, 1, colon - 1))
        rest == SkipSlashes(SubSeq(input, colon + 1, Len(input)))
        stop == FirstIn(rest, {"/", "?"}, 1)
        authority == SubSeq(rest, 1, stop - 1)
        tail == SubSeq(rest, stop, Len(rest))
        pcolon == FirstIn(authority, {":"}, 1)
        host == toLowerCase(SubSeq(authority, 1, pcolon - 1))
        port == SubSeq(authority, pcolon + 1, Len(authority))
        path == IF tail = <<>> \/ Head(tail) = "?" THEN <<"/">> \o tail ELSE tail
    IN  IF \/ colon > Len(input)
           \/ scheme = <<>>
           \/ \E i \in 1..Len(scheme) : scheme[i] \notin LowerLetters
        THEN NoUrl
        ELSE IF scheme \notin SpecialSchemes
        THEN [ok |-> TRUE, protocol |-> scheme \o <<":">>, hostname |-> <<>>,
              href |-> scheme \o <<":">> \o SubSeq(input, colon + 1, Len(input))]
        ELSE IF \/ host = <<>>
                \/ \E i \in 1..Len(host) : host[i] \notin LowerLetters \cup Digits \cup {"-", "."}
                \/ \E i \in 1..Len(port) : port[i] \notin Digits
        THEN NoUrl
        ELSE [ok |-> TRUE, protocol |-> scheme \o <<":">>, hostname |-> host,
              href |-> scheme \o <<":", "/", "/">> \o host
                       \o (IF port = <<>> \/ port = DefaultPort(scheme)
                           THEN <<>> ELSE <<":">> \o port)
                       \o path]

validateTargetUrl(targetUrl) ==
    LET trimmed == trim(targetUrl)
        parsed == ParseUrl(trimmed)
    IN  IF trimmed = <<>> THEN Err("Target URL is required.")
        ELSE IF ~parsed.ok THEN Err("Target URL must be a valid absolute URL.")
        ELSE IF /\ parsed.protocol # <<"h", "t", "t", "p", ":">>
                /\ parsed.protocol # <<"h", "t", "t", "p", "s", ":">>
             THEN Err("Target URL must start with http:// or https://.")
        ELSE Ok(parsed.href, toLowerCase(parsed.hostname))

\* A rule of the in-process list, and the record validateRule returns:
\* {valid, normalized} or {valid, sourceError} or {valid, targetError}.
Rule(id, enabled, source_hostname, target_url) ==
    [id |-> id, enabled |-> enabled, source_hostname |-> source_hostname,
     target_url |-> target_url]

NoRule == Rule(<<>>, FALSE, <<>>, <<>>)

Invalid(sourceError, targetError) ==
    [valid |-> FALSE, normalized |-> NoRule, sourceError |-> sourceError,
     targetError |-> targetError]

SelfLoopError == "Target URL hostname cannot match source hostname (self-loop)."

\* validateRule comparing the target's hostname with the source as typed
\* (rule.source_hostname) and not as normalized (hostResult.value).
validateRule_RawSource(rule, fresh) ==
    LET hostResult == validateHostname(rule.source_hostname)
        targetResult == validateTargetUrl(rule.target_url)
    IN  IF ~hostResult.valid THEN Invalid(hostResult.error, "")
        ELSE IF ~targetResult.valid THEN Invalid("", targetResult.error)
        ELSE IF targetResult.hostname = rule.source_hostname THEN Invalid("", SelfLoopError)
        ELSE [valid |-> TRUE,
              normalized |-> Rule(IF rule.id # <<>> THEN rule.id ELSE fresh,
                                  rule.enabled, hostResult.value, targetResult.value),
              sourceError |-> "", targetError |-> ""]

\* validateRule(rule) for a draft whose id is a string, empty when the draft
\* has none; fresh is the id makeId() returns if it is called (line 149).
validateRule(rule, fresh) ==
    LET hostResult == validateHostname(rule.source_hostname)
        targetResult == validateTargetUrl(rule.target_url)
    IN  IF ~hostResult.valid THEN Invalid(hostResult.error, "")
        ELSE IF ~targetResult.valid THEN Invalid("", targetResult.error)
        ELSE IF targetResult.hostname = hostResult.value THEN Invalid("", SelfLoopError)
        ELSE [valid |-> TRUE,
              normalized |-> Rule(IF rule.id # <<>> THEN rule.id ELSE fresh,
                                  rule.enabled, hostResult.value, targetResult.value),
              sourceError |-> "", targetError |-> ""]

-----------------------------------------------------------------------------
(* Numbers: Number(v), toFixed(2).                                         *)

\* The value of a run of decimal digits.
RECURSIVE DigitsValue(_)
DigitsValue(ds) ==
    IF ds = <<>> THEN 0
    ELSE 10 * DigitsValue(SubSeq(ds, 1, Len(ds) - 1))
         + (CHOOSE k \in 0..9 : DigitStr(k) = ds[Len(ds)])

NaN == [finite |-> FALSE, n |-> 0]
Finite(n) == [finite |-> TRUE, n |-> n]

\* Number(string): the decimal literals sign? digits [. digits] with at most
\* three decimals, in thousandths; the empty string is 0; anything else of the
\* model's strings is NaN.
StringToNumber(str) ==
    LET t == trim(str)
        signed == t # <<>> /\ Head(t) \in {"-", "+"}
        body == IF signed THEN Tail(t) ELSE t
        dot == FirstIn(body, {"."}, 1)
        int == SubSeq(body, 1, dot - 1)
        frac == SubSeq(body, dot + 1, Len(body))
        frac3 == SubSeq(frac \o <<"0", "0", "0">>, 1, 3)
        magnitude == DigitsValue(int) * 1000 + DigitsValue(frac3)
    IN  IF t = <<>> THEN Finite(0)
        ELSE IF \/ int \o frac = <<>>
                \/ \E i \in 1..Len(int) : int[i] \notin Digits
                \/ \E i \in 1..Len(frac) : frac[i] \notin Digits
                \/ Len(frac) > 3
             THEN NaN
        ELSE Finite(IF signed /\ Head(t) = "-" THEN -magnitude ELSE magnitude)

\* Number(v).
ToNumber(v) ==
    CASE v.t = "number" -> Finite(v.n)
      [] v.t = "null" -> Finite(0)
      [] v.t = "boolean" -> Finite(IF v.b THEN 1000 ELSE 0)
      [] v.t = "string" -> StringToNumber(v.s)
      [] v.t = "array" -> Finite(0)
      [] OTHER -> NaN

\* Number.isFinite(v): a number, and every stored number is finite.
IsFiniteNumber(v) == v.t = "number"

\* The thousandths n >= 0 ending in 5 whose double lies at or above n / 1000,
\* so that toFixed(2) rounds them up: 0.005, 0.125, 0.375, 1.995, 10.005 and
\* 12.345.  The doubles of 0.015, 0.045, 0.995, 1.005, 1.115, 2.675 and 9.995
\* lie below and round down.  No other tie is put in.
TieRoundsUp(n) == n \in {5, 125, 375, 1995, 10005, 12345}

\* Number(x.toFixed(2)) for x = n / 1000 >= 0, in thousandths.
toFixed2(n) ==
    LET low == (n \div 10) * 10
        r == n % 10
    IN  IF r > 5 \/ (r = 5 /\ TieRoundsUp(n)) THEN low + 10 ELSE low

-----------------------------------------------------------------------------
(* Metrics/settings normalizers and the hourly-rate validator              *)
(* (lines 161-196).                                                        *)

\* A stored or notified metrics payload: the value v, and when v is an object
\* its total_redirects and per_rule properties (undefined when absent).
MetricsPayload(v, total, perRule) == [v |-> v, total_redirects |-> total, per_rule |-> perRule]
\* A stored or notified settings payload, likewise.
SettingsPayload(v, rate) == [v |-> v, hourly_rate |-> rate]

ZeroMetrics == [total_redirects |-> 0, per_rule |-> JObj(0)]
UnsetSettings == [hourly_rate |-> JNull]

normalizeMetrics(rawMetrics) ==
    IF ~Truthy(rawMetrics.v) \/ ~TypeofObject(rawMetrics.v) THEN ZeroMetrics
    ELSE [total_redirects |->
              IF IsFiniteNumber(rawMetrics.total_redirects)
              THEN rawMetrics.total_redirects.n ELSE 0,
          per_rule |->
              IF Truthy(rawMetrics.per_rule) /\ TypeofObject(rawMetrics.per_rule)
              THEN rawMetrics.per_rule ELSE JObj(0)]

normalizeSettings(rawSettings) ==
    LET rate == ToNumber(rawSettings.hourly_rate) IN
    IF ~Truthy(rawSettings.v) \/ ~TypeofObject(rawSettings.v) THEN UnsetSettings
    ELSE IF ~rate.finite \/ rate.n < 0 THEN UnsetSettings
    ELSE [hourly_rate |-> JNum(rate.n)]

\* validateHourlyRate returning the parsed number as it is, without toFixed.
validateHourlyRate_Unrounded(rawValue) ==
    LET trimmed == trim(rawValue)
        parsed == StringToNumber(trimmed)
    IN  IF trimmed = <<>> THEN [valid |-> TRUE, value |-> JNull, error |-> ""]
        ELSE IF ~parsed.finite
             THEN [valid |-> FALSE, value |-> JNull,
                   error |-> "Hourly rate must be a valid number."]
        ELSE IF parsed.n < 0
             THEN [valid |-> FALSE, value |-> JNull,
                   error |-> "Hourly rate cannot be negative."]
        ELSE [valid |-> TRUE, value |-> JNum(parsed.n), error |-> ""]

\* validateHourlyRate(rawValue) for the string of the input field: {valid,
\* value} with value null or a number, or {valid, error}.
validateHourlyRate(rawValue) ==
    LET trimmed == trim(rawValue)
        parsed == StringToNumber(trimmed)
    IN  IF trimmed = <<>> THEN [valid |-> TRUE, value |-> JNull, error |-> ""]
        ELSE IF ~parsed.finite
             THEN [valid |-> FALSE, value |-> JNull,
                   error |-> "Hourly rate must be a valid number."]
        ELSE IF parsed.n < 0
             THEN [valid |-> FALSE, value |-> JNull,
                   error |-> "Hourly rate cannot be negative."]
        ELSE [valid |-> TRUE, value |-> JNum(toFixed2(parsed.n)), error |-> ""]

-----------------------------------------------------------------------------
(* What chrome.storage holds under the three keys.                         *)

\* The value under redirect_rules: v, and when v is an array its items.
RulesPayload(v, items) == [v |-> v, items |-> items]
\* One item of a stored array: the item itself (v) and, when it is an object,
\* its four properties (undefined when absent).
Item(v, id, enabled, source_hostname, target_url) ==
    [v |-> v, id |-> id, enabled |-> enabled, source_hostname |-> source_hostname,
     target_url |-> target_url]

AbsentRules == RulesPayload(JUndefined, <<>>)
AbsentMetrics == MetricsPayload(JUndefined, JUndefined, JUndefined)
AbsentSettings == SettingsPayload(JUndefined, JUndefined)

\* The payload storage.set serializes for { redirect_rules: rules } (line 158)
\* and for { redirect_settings: settings } (line 376).
StoredItem(rule) ==
    Item(JObj(0), JStr(rule.id), JBool(rule.enabled), JStr(rule.source_hostname),
         JStr(rule.target_url))

StoredRules(rs) == RulesPayload(JArr, [i \in 1..Len(rs) |-> StoredItem(rs[i])])

StoredSettings(st) == SettingsPayload(JObj(0), st.hourly_rate)

\* getStorageArea(), line 22.
getStorageArea == IF hasSync THEN "sync" ELSE "local"

Areas == {"sync", "local"}

-----------------------------------------------------------------------------
(* loadRules' mapping of the stored array (lines 358-364).                 *)

\* `item.id` throws a TypeError when item is null or undefined.
ItemThrows(item) == item.v.t \in {"null", "undefined"}

MintsId(item) == ~Truthy(item.id)

\* How many of items get a minted id.
RECURSIVE Minted(_)
Minted(items) ==
    IF items = <<>> THEN 0
    ELSE (IF MintsId(Head(items)) THEN 1 ELSE 0) + Minted(Tail(items))

\* The arrow function minting an id for every item.
LoadItem_AlwaysMints(item, fresh) ==
    Rule(fresh,
         Truthy(item.enabled),
         IF Truthy(item.source_hostname) THEN JString(item.source_hostname) ELSE <<>>,
         IF Truthy(item.target_url) THEN JString(item.target_url) ELSE <<>>)

\* The arrow function of line 359, with the id makeId() would return.
LoadItem(item, fresh) ==
    Rule(IF Truthy(item.id) THEN JString(item.id) ELSE fresh,
         Truthy(item.enabled),
         IF Truthy(item.source_hostname) THEN JString(item.source_hostname) ELSE <<>>,
         IF Truthy(item.target_url) THEN JString(item.target_url) ELSE <<>>)

\* stored.map(...), minting ids from the k-th on.
RECURSIVE MapItems(_, _)
MapItems(items, k) ==
    IF items = <<>> THEN <<>>
    ELSE <<LoadItem(Head(items), makeId(k))>>
         \o MapItems(Tail(items), IF MintsId(Head(items)) THEN k + 1 ELSE k)

\* Array.isArray(result[STORAGE_KEY]) ? result[STORAGE_KEY] : []
StoredArray(payload) == IF payload.v.t = "array" THEN payload.items ELSE <<>>

-----------------------------------------------------------------------------
(* The inputs the model draws: what the user types, what storage holds at  *)
(* page load and what other processes write.                               *)

HostAB == <<"a", ".", "b">>
HostABSpaced == <<" ", "A", ".", "B">>
HostNoDot == <<"a">>
UrlCD == <<"h", "t", "t", "p", ":", "/", "/", "c", ".", "d">>
UrlABUpper == <<"H", "T", "T", "P", ":", "/", "/", "A", ".", "B", "/", "x">>
UrlNoScheme == <<"c", ".", "d">>

\* What the user types into the page of the model; the validator's own
\* specification draws from larger sets.
UiHosts == {HostABSpaced, HostNoDot}
UiUrls == {UrlCD, UrlABUpper}
UiRates == {<<>>, <<"-", "1">>, <<"1", "2", ".", "3", "4", "5">>}

\* [{id: "r1", enabled: true, source_hostname: "a.b", target_url: "http://c.d/"}]
StoredValidRule ==
    RulesPayload(JArr, <<Item(JObj(0), JStr(<<"r", "1">>), JBool(TRUE), JStr(HostAB),
                           JStr(<<"h", "t", "t", "p", ":", "/", "/", "c", ".", "d", "/">>))>>)
\* [{id: "r2", source_hostname: "a", target_url: "c.d"}, {}]
StoredInvalidRules ==
    RulesPayload(JArr, <<Item(JObj(0), JStr(<<"r", "2">>), JUndefined, JStr(HostNoDot),
                           JStr(UrlNoScheme)),
                         Item(JObj(0), JUndefined, JUndefined, JUndefined, JUndefined)>>)
\* [{id: "r1", enabled: true, source_hostname: "a.b", target_url: "http://c.d/"}, null]
StoredNullItem ==
    RulesPayload(JArr, <<Item(JObj(0), JStr(<<"r", "1">>), JBool(TRUE), JStr(HostAB),
                           JStr(<<"h", "t", "t", "p", ":", "/", "/", "c", ".", "d", "/">>)),
                         Item(JNull, JUndefined, JUndefined, JUndefined, JUndefined)>>)
\* "x"
StoredNotArray == RulesPayload(JStr(<<"x">>), <<>>)

\* What the loads are given in the loads' own specification, what storage
\* holds as the page of the model opens, and what other processes write.
AllRules == {AbsentRules, StoredNotArray, StoredValidRule, StoredInvalidRules, StoredNullItem}
InitRules == {AbsentRules, StoredValidRule, StoredInvalidRules}
ExtRules == {AbsentRules, StoredValidRule}

\* {total_redirects: 2, per_rule: {r1: 2}}, {total_redirects: 3, per_rule: {r1: 3}},
\* {total_redirects: "7"}, null, {total_redirects: -1, per_rule: {}} and {}
StoredMetrics2 == MetricsPayload(JObj(0), JNum(2000), JObj(2))
StoredMetrics3 == MetricsPayload(JObj(0), JNum(3000), JObj(3))
StoredMetrics4 == MetricsPayload(JObj(0), JNum(4000), JObj(4))
StoredMetricsNegative == MetricsPayload(JObj(0), JNum(-1000), JObj(0))
StoredMetricsEmpty == MetricsPayload(JObj(0), JUndefined, JUndefined)
AllMetrics ==
    {AbsentMetrics,
     StoredMetrics2,
     StoredMetrics3,
     MetricsPayload(JObj(0), JStr(<<"7">>), JUndefined),
     MetricsPayload(JNull, JUndefined, JUndefined),
     StoredMetricsNegative,
     StoredMetricsEmpty}
ExtMetrics == {StoredMetrics3, AbsentMetrics}

\* {hourly_rate: 20}, {hourly_rate: null}, {hourly_rate: "5"}, {hourly_rate: -1},
\* {hourly_rate: true}, {hourly_rate: 12.345}, {} and "x"
StoredSettings20 == SettingsPayload(JObj(0), JNum(20000))
StoredSettingsNull == SettingsPayload(JObj(0), JNull)
AllSettings ==
    {AbsentSettings,
     StoredSettings20,
     StoredSettingsNull,
     SettingsPayload(JObj(0), JStr(<<"5">>)),
     SettingsPayload(JObj(0), JNum(-1000)),
     SettingsPayload(JObj(0), JBool(TRUE)),
     SettingsPayload(JObj(0), JNum(12345)),
     SettingsPayload(JObj(0), JUndefined),
     SettingsPayload(JStr(<<"x">>), JUndefined)}
ExtSettings == {StoredSettingsNull, AbsentSettings}

-----------------------------------------------------------------------------
(* Configuration store: state after the script has run (lines 18-20, 419,  *)
(* 423, 463: the three loads are issued and none has completed).           *)

NoMessage == [text |-> "", type |-> ""]
Op(op, valid) == [op |-> op, valid |-> valid]

StorageAt(r, m, st, sync) ==
    [a \in Areas |->
        [rules |-> IF a = (IF sync THEN "sync" ELSE "local") THEN r ELSE AbsentRules,
         metrics |-> IF a = "local" THEN m ELSE AbsentMetrics,
         settings |-> IF a = (IF sync THEN "sync" ELSE "local") THEN st ELSE AbsentSettings]]

InitStore ==
    /\ hasSync \in BOOLEAN
    /\ rules = <<>>
    /\ metrics = ZeroMetrics
    /\ settings = UnsetSettings
    /\ rows = <<>>
    /\ formMessage = NoMessage
    /\ \E r \in AllRules, m \in AllMetrics, st \in AllSettings :
            storage = StorageAt(r, m, st, hasSync)
    /\ reads = [state |-> [k \in {"rules", "metrics", "settings"} |-> "issued"],
                rules |-> AbsentRules, metrics |-> AbsentMetrics,
                settings |-> AbsentSettings]
    /\ writes = <<>>
    /\ notifs = <<>>
    /\ nextId = 1
    /\ uiEvents = 0
    /\ extWrites = 0
    /\ lastOp = Op("init", TRUE)

HarnessIdle ==
    /\ draft = NoRule
    /\ validation = Invalid("", "")

\* The page of the model opens on one of a few contents of storage.
Init ==
    /\ InitStore
    /\ \E r \in InitRules : storage = StorageAt(r, StoredMetrics2, StoredSettings20, hasSync)
    /\ HarnessIdle

-----------------------------------------------------------------------------
(* Rendering and persistence.                                              *)

\* renderRules (lines 261-354): one row per rule, holding the id its handlers
\* captured and the values of its three inputs.
RenderedRows(rs) ==
    [i \in 1..Len(rs) |->
        [id |-> rs[i].id, enabled |-> rs[i].enabled, source |-> rs[i].source_hostname,
         target |-> rs[i].target_url]]

\* A storage.set call in flight: its key, its payload and the handler awaiting it.
Write(key, by, rulesPayload, settingsPayload) ==
    [key |-> key, by |-> by, rules |-> rulesPayload, settings |-> settingsPayload]

\* persistRules writing the list as it was before the handler's assignment.
persistRules_Stale(rs, by) ==
    Append(writes, Write(STORAGE_KEY, by, StoredRules(rules), AbsentSettings))

\* persistRules (lines 157-159): the call storageSet({redirect_rules: rules})
\* issued with the list rs as it is now.
persistRules(rs, by) == Append(writes, Write(STORAGE_KEY, by, StoredRules(rs), AbsentSettings))

\* persistSettings setting its object under the metrics key.
persistSettings_UnderMetricsKey(st, by) ==
    Append(writes, Write(METRICS_KEY, by, AbsentRules, StoredSettings(st)))

\* persistSettings (lines 375-377).
persistSettings(st, by) ==
    Append(writes, Write(SETTINGS_KEY, by, AbsentRules, StoredSettings(st)))

\* One entry of the changes object of a notification.
NoChange(absent) == [has |-> FALSE, newValue |-> absent]
Change(newValue) == [has |-> TRUE, newValue |-> newValue]

Notification(area, rulesChange, metricsChange, settingsChange) ==
    [area |-> area, rules |-> rulesChange, metrics |-> metricsChange,
     settings |-> settingsChange]

\* rules.findIndex((item) => item.id === id): 0 for -1.
findIndex(rs, id) ==
    IF \E j \in 1..Len(rs) : rs[j].id = id
    THEN CHOOSE j \in 1..Len(rs) :
            /\ rs[j].id = id
            /\ \A k \in 1..(j - 1) : rs[k].id # id
    ELSE 0

\* rules.filter((item) => item.id !== id)
RECURSIVE filterOut(_, _)
filterOut(rs, id) ==
    IF rs = <<>> THEN <<>>
    ELSE (IF Head(rs).id # id THEN <<Head(rs)>> ELSE <<>>) \o filterOut(Tail(rs), id)

-----------------------------------------------------------------------------
(* UI events.                                                              *)

UiGuard == uiEvents < MaxUiEvents /\ Len(writes) < MaxWrites

\* The submit handler of addRuleForm (lines 390-417), up to its await.
AddRule(host, url) ==
    \E d \in {Rule(makeId(nextId), TRUE, host, url)} :
    \E v \in {validateRule(d, makeId(nextId + 1))} :
        /\ UiGuard
        /\ nextId' = nextId + 1
        /\ uiEvents' = uiEvents + 1
        /\ lastOp' = Op("add", v.valid)
        /\ IF ~v.valid
           THEN /\ formMessage' =
                     [text |-> IF v.sourceError # "" THEN v.sourceError ELSE v.targetError,
                      type |-> "error"]
                /\ UNCHANGED <<rules, writes>>
           ELSE /\ rules' = Append(rules, v.normalized)
                /\ writes' = persistRules(rules', "add")
                /\ UNCHANGED formMessage
        /\ UNCHANGED <<hasSync, metrics, settings, rows, storage, reads, notifs,
                       extWrites, draft, validation>>

\* updateRuleFromInputs (lines 283-322) for row i, up to its await, once the
\* event has put the row's inputs at rows2[i].
updateRuleFromInputs(i, rows2, allowPersistOnInvalid, op) ==
    \E row \in {rows2[i]} :
    \E d \in {Rule(row.id, row.enabled, row.source, row.target)} :
    \E v \in {validateRule(d, makeId(nextId))} :
    \E index \in {findIndex(rules, row.id)} :
    LET proceeds == (v.valid \/ allowPersistOnInvalid) /\ index # 0
        replacement ==
            IF v.valid THEN v.normalized
            ELSE Rule(d.id, d.enabled, toLowerCase(trim(d.source_hostname)),
                      trim(d.target_url))
    IN  /\ rows' = rows2
        /\ nextId' = IF v.valid /\ d.id = <<>> THEN nextId + 1 ELSE nextId
        /\ uiEvents' = uiEvents + 1
        /\ lastOp' = Op(op, v.valid)
        /\ IF proceeds
           THEN /\ rules' = [rules EXCEPT ![index] = replacement]
                /\ writes' = persistRules(rules', "update")
           ELSE UNCHANGED <<rules, writes>>
        /\ UNCHANGED <<hasSync, metrics, settings, formMessage, storage, reads, notifs,
                       extWrites, draft, validation>>

\* The change listener of a row's enabled checkbox (lines 324-326).
ToggleEnabled(i) ==
    /\ UiGuard
    /\ i \in 1..Len(rows)
    /\ updateRuleFromInputs(i, [rows EXCEPT ![i].enabled = ~rows[i].enabled], TRUE, "toggle")

\* The hostname listener, had it passed allowPersistOnInvalid as the checkbox
\* listener does.
EditSource_PersistOnInvalid(i, value) ==
    /\ UiGuard
    /\ i \in 1..Len(rows)
    /\ value # rows[i].source
    /\ updateRuleFromInputs(i, [rows EXCEPT ![i].source = value], TRUE, "editSource")

\* The input listener of a row's hostname field (lines 328-330).
EditSource(i, value) ==
    /\ UiGuard
    /\ i \in 1..Len(rows)
    /\ value # rows[i].source
    /\ updateRuleFromInputs(i, [rows EXCEPT ![i].source = value], FALSE, "editSource")

\* The input listener of a row's URL field (lines 332-334).
EditTarget(i, value) ==
    /\ UiGuard
    /\ i \in 1..Len(rows)
    /\ value # rows[i].target
    /\ updateRuleFromInputs(i, [rows EXCEPT ![i].target = value], FALSE, "editTarget")

\* The click listener of a row's delete button (lines 336-345), up to its await.
DeleteRule(i) ==
    /\ UiGuard
    /\ i \in 1..Len(rows)
    /\ rules' = filterOut(rules, rows[i].id)
    /\ writes' = persistRules(rules', "delete")
    /\ uiEvents' = uiEvents + 1
    /\ lastOp' = Op("delete", TRUE)
    /\ UNCHANGED <<hasSync, metrics, settings, rows, formMessage, storage, reads, notifs,
                   nextId, extWrites, draft, validation>>

\* The listener without the return of its invalid branch: the value of the
\* failed validation is taken and persisted.
HourlyRateInput_NoReturn(rawValue) ==
    LET v == validateHourlyRate(rawValue) IN
    /\ UiGuard
    /\ uiEvents' = uiEvents + 1
    /\ lastOp' = Op("rate", v.valid)
    /\ settings' = [hourly_rate |-> v.value]
    /\ writes' = persistSettings(settings', "rate")
    /\ UNCHANGED <<hasSync, rules, metrics, rows, formMessage, storage, reads, notifs,
                   nextId, extWrites, draft, validation>>

\* The input listener of hourlyRateInput (lines 445-461), up to its await.
HourlyRateInput(rawValue) ==
    LET v == validateHourlyRate(rawValue) IN
    /\ UiGuard
    /\ uiEvents' = uiEvents + 1
    /\ lastOp' = Op("rate", v.valid)
    /\ IF ~v.valid
       THEN UNCHANGED <<settings, writes>>
       ELSE /\ settings' = [hourly_rate |-> v.value]
            /\ writes' = persistSettings(settings', "rate")
    /\ UNCHANGED <<hasSync, rules, metrics, rows, formMessage, storage, reads, notifs,
                   nextId, extWrites, draft, validation>>

-----------------------------------------------------------------------------
(* The storage substrate: completions of set and get, other writers.       *)

RemoveAt(q, k) == SubSeq(q, 1, k - 1) \o SubSeq(q, k + 1, Len(q))

\* The notification chrome.storage raises for a set of `key` in `area`: it
\* names the key only when its value changes.
NotifyOf(area, key, rulesPayload, metricsPayload, settingsPayload) ==
    Notification(area,
        IF key = STORAGE_KEY THEN Change(rulesPayload) ELSE NoChange(AbsentRules),
        IF key = METRICS_KEY THEN Change(metricsPayload) ELSE NoChange(AbsentMetrics),
        IF key = SETTINGS_KEY THEN Change(settingsPayload) ELSE NoChange(AbsentSettings))

\* The message shown by the catch of the handler that awaited a failed write
\* (lines 320, 343, 415, 459).
FailureMessage(by) ==
    [text |-> CASE by = "add" -> "Failed to save rule"
                [] by = "update" -> "Failed to save rules"
                [] by = "delete" -> "Failed to delete rule"
                [] OTHER -> "Failed to save hourly rate",
     type |-> "error"]

\* storageSet's callback without lastError (line 46), and the rest of the
\* handler that awaited it (lines 318, 340-341, 410-413).
WriteSucceeds(k) ==
    LET w == writes[k]
        area == getStorageArea
        old == storage[area]
        changed == IF w.key = STORAGE_KEY THEN old.rules # w.rules
                   ELSE old.settings # w.settings
    IN  /\ k \in 1..Len(writes)
        /\ changed => Len(notifs) < MaxNotifs
        /\ writes' = RemoveAt(writes, k)
        /\ storage' = [storage EXCEPT ![area] =
                IF w.key = STORAGE_KEY THEN [old EXCEPT !.rules = w.rules]
                ELSE [old EXCEPT !.settings = w.settings]]
        /\ notifs' = IF changed
                     THEN Append(notifs, NotifyOf(area, w.key, w.rules, AbsentMetrics,
                                                  w.settings))
                     ELSE notifs
        /\ rows' = IF w.by \in {"add", "delete"} THEN RenderedRows(rules) ELSE rows
        /\ formMessage' =
                CASE w.by = "add" -> [text |-> "Rule added.", type |-> "success"]
                  [] w.by \in {"update", "delete"} -> NoMessage
                  [] OTHER -> formMessage
        /\ lastOp' = Op("writeDone", TRUE)
        /\ UNCHANGED <<hasSync, rules, metrics, settings, reads, nextId, uiEvents,
                       extWrites, draft, validation>>

\* A failed write whose handler reports it and issues the same write again.
WriteFails_Retries(k) ==
    /\ k \in 1..Len(writes)
    /\ writes' = Append(RemoveAt(writes, k), writes[k])
    /\ formMessage' = FailureMessage(writes[k].by)
    /\ lastOp' = Op("writeFailed", FALSE)
    /\ UNCHANGED <<hasSync, rules, metrics, settings, rows, storage, reads, notifs,
                   nextId, uiEvents, extWrites, draft, validation>>

\* storageSet's callback with lastError (lines 42-44), and the catch of the
\* handler that awaited it.
WriteFails(k) ==
    /\ k \in 1..Len(writes)
    /\ writes' = RemoveAt(writes, k)
    /\ formMessage' = FailureMessage(writes[k].by)
    /\ lastOp' = Op("writeFailed", FALSE)
    /\ UNCHANGED <<hasSync, rules, metrics, settings, rows, storage, reads, notifs,
                   nextId, uiEvents, extWrites, draft, validation>>

\* The area a startup read goes to: getStorageArea() for rules and settings
\* (storageGet), chrome.storage.local for metrics (localStorageGet).
ReadArea(k) == IF k = "metrics" THEN "local" ELSE getStorageArea

\* The substrate answers a get: storageGet / localStorageGet resolve with the
\* stored value ("served"), or with {} when lastError is set ("failed")
\* (lines 29-34, 54-59).
ServeRead(k, failed) ==
    /\ reads.state[k] = "issued"
    /\ reads' =
          [state |-> [reads.state EXCEPT ![k] = IF failed THEN "failed" ELSE "served"],
           rules |-> IF k = "rules" /\ ~failed
                     THEN storage[ReadArea(k)].rules ELSE reads.rules,
           metrics |-> IF k = "metrics" /\ ~failed
                       THEN storage[ReadArea(k)].metrics ELSE reads.metrics,
           settings |-> IF k = "settings" /\ ~failed
                        THEN storage[ReadArea(k)].settings ELSE reads.settings]
    /\ UNCHANGED <<hasSync, rules, metrics, settings, rows, formMessage, storage,
                   writes, notifs, nextId, uiEvents, extWrites, lastOp, draft, validation>>

\* A completed read keeps no result.
ReadDone(k) ==
    [state |-> [reads.state EXCEPT ![k] = "done"],
     rules |-> IF k = "rules" THEN AbsentRules ELSE reads.rules,
     metrics |-> IF k = "metrics" THEN AbsentMetrics ELSE reads.metrics,
     settings |-> IF k = "settings" THEN AbsentSettings ELSE reads.settings]

\* loadRules after its await (lines 358-365), and the catch of line 419.
LoadRulesDone ==
    \E stored \in {StoredArray(reads.rules)} :
    \E throws \in {\E i \in 1..Len(stored) : ItemThrows(stored[i])} :
        /\ reads.state["rules"] \in {"served", "failed"}
        /\ reads' = ReadDone("rules")
        /\ lastOp' = Op("loadRules", ~throws)
        /\ IF throws
           THEN /\ formMessage' = [text |-> "Failed to load rules", type |-> "error"]
                /\ UNCHANGED <<rules, rows, nextId>>
           ELSE /\ rules' = MapItems(stored, nextId)
                /\ nextId' = nextId + Minted(stored)
                /\ rows' = RenderedRows(rules')
                /\ UNCHANGED formMessage
        /\ UNCHANGED <<hasSync, metrics, settings, storage, writes, notifs, uiEvents,
                       extWrites, draft, validation>>

\* loadMetrics after its await (lines 370-372).
LoadMetricsDone ==
    /\ reads.state["metrics"] \in {"served", "failed"}
    /\ reads' = ReadDone("metrics")
    /\ metrics' = normalizeMetrics(reads.metrics)
    /\ rows' = RenderedRows(rules)
    /\ lastOp' = Op("loadMetrics", TRUE)
    /\ UNCHANGED <<hasSync, rules, settings, formMessage, storage, writes, notifs,
                   nextId, uiEvents, extWrites, draft, validation>>

\* loadSettings assigning only when the read returned a value.
LoadSettingsDone_KeepsOnMissing ==
    /\ reads.state["settings"] \in {"served", "failed"}
    /\ reads' = ReadDone("settings")
    /\ settings' = IF reads.settings = AbsentSettings THEN settings
                   ELSE normalizeSettings(reads.settings)
    /\ lastOp' = Op("loadSettings", TRUE)
    /\ UNCHANGED <<hasSync, rules, metrics, rows, formMessage, storage, writes, notifs,
                   nextId, uiEvents, extWrites, draft, validation>>

\* loadSettings after its await (lines 385-387).
LoadSettingsDone ==
    /\ reads.state["settings"] \in {"served", "failed"}
    /\ reads' = ReadDone("settings")
    /\ settings' = normalizeSettings(reads.settings)
    /\ lastOp' = Op("loadSettings", TRUE)
    /\ UNCHANGED <<hasSync, rules, metrics, rows, formMessage, storage, writes, notifs,
                   nextId, uiEvents, extWrites, draft, validation>>

\* Another process (another options page, the redirect engine) sets one key
\* of an area that exists.
ExternalWrite(area, key, r, m, st) ==
    LET old == storage[area]
        changed == CASE key = STORAGE_KEY -> old.rules # r
                     [] key = METRICS_KEY -> old.metrics # m
                     [] OTHER -> old.settings # st
    IN  /\ extWrites < MaxExtWrites
        /\ area = "sync" => hasSync
        /\ changed
        /\ Len(notifs) < MaxNotifs
        /\ extWrites' = extWrites + 1
        /\ storage' = [storage EXCEPT ![area] =
                CASE key = STORAGE_KEY -> [old EXCEPT !.rules = r]
                  [] key = METRICS_KEY -> [old EXCEPT !.metrics = m]
                  [] OTHER -> [old EXCEPT !.settings = st]]
        /\ notifs' = Append(notifs, NotifyOf(area, key, r, m, st))
        /\ UNCHANGED <<hasSync, rules, metrics, settings, rows, formMessage, reads,
                       writes, nextId, uiEvents, lastOp, draft, validation>>

\* Another process sets metrics and settings of the local area in one call:
\* one notification names both keys.
ExternalWriteBoth(m, st) ==
    LET old == storage["local"] IN
    /\ extWrites < MaxExtWrites
    /\ old.metrics # m /\ old.settings # st
    /\ Len(notifs) < MaxNotifs
    /\ extWrites' = extWrites + 1
    /\ storage' = [storage EXCEPT !["local"] = [old EXCEPT !.metrics = m, !.settings = st]]
    /\ notifs' = Append(notifs, Notification("local", NoChange(AbsentRules), Change(m),
                                             Change(st)))
    /\ UNCHANGED <<hasSync, rules, metrics, settings, rows, formMessage, reads,
                   writes, nextId, uiEvents, lastOp, draft, validation>>

-----------------------------------------------------------------------------
(* The chrome.storage.onChanged listener (lines 427-443).                  *)

\* Lines 430-434: the metrics the listener leaves.
onChangedMetrics(n, current) ==
    IF n.area = "local" /\ n.metrics.has
    THEN normalizeMetrics(n.metrics.newValue) ELSE current

\* The settings branch without the test of the area (line 436).
onChangedSettings_AnyArea(n, usingSync, current) ==
    IF n.settings.has THEN normalizeSettings(n.settings.newValue) ELSE current

\* Lines 436-442: the settings the listener leaves.
onChangedSettings(n, usingSync, current) ==
    IF /\ (usingSync /\ n.area = "sync") \/ (~usingSync /\ n.area = "local")
       /\ n.settings.has
    THEN normalizeSettings(n.settings.newValue) ELSE current

\* The listener with a third branch that takes a notified rule list.
OnChanged_ReconcilesRules ==
    /\ notifs # <<>>
    /\ notifs' = Tail(notifs)
    /\ metrics' = onChangedMetrics(Head(notifs), metrics)
    /\ settings' = onChangedSettings(Head(notifs), hasSync, settings)
    /\ rules' = IF Head(notifs).rules.has
                THEN MapItems(StoredArray(Head(notifs).rules.newValue), nextId)
                ELSE rules
    /\ rows' = IF Head(notifs).area = "local" /\ Head(notifs).metrics.has
               THEN RenderedRows(rules') ELSE rows
    /\ lastOp' = Op("onChanged", TRUE)
    /\ UNCHANGED <<hasSync, formMessage, storage, reads, writes, nextId,
                   uiEvents, extWrites, draft, validation>>

OnChanged ==
    /\ notifs # <<>>
    /\ notifs' = Tail(notifs)
    /\ metrics' = onChangedMetrics(Head(notifs), metrics)
    /\ settings' = onChangedSettings(Head(notifs), hasSync, settings)
    /\ rows' = IF Head(notifs).area = "local" /\ Head(notifs).metrics.has
               THEN RenderedRows(rules) ELSE rows
    /\ lastOp' = Op("onChanged", TRUE)
    /\ UNCHANGED <<hasSync, rules, formMessage, storage, reads, writes, nextId,
                   uiEvents, extWrites, draft, validation>>

-----------------------------------------------------------------------------
(* The page and its environment.                                           *)

RulesUi ==
    \/ \E host \in UiHosts, url \in UiUrls : AddRule(host, url)
    \/ \E i \in 1..Len(rows) : ToggleEnabled(i)
    \/ \E i \in 1..Len(rows), value \in UiHosts : EditSource(i, value)
    \/ \E i \in 1..Len(rows), value \in UiUrls : EditTarget(i, value)
    \/ \E i \in 1..Len(rows) : DeleteRule(i)

RateUi == \E rawValue \in UiRates : HourlyRateInput(rawValue)

SetCompletes ==
    \/ \E k \in 1..Len(writes) : WriteSucceeds(k)
    \/ \E k \in 1..Len(writes) : WriteFails(k)

RulesLoad ==
    \/ \E failed \in BOOLEAN : ServeRead("rules", failed)
    \/ LoadRulesDone

MetricsLoad ==
    \/ \E failed \in BOOLEAN : ServeRead("metrics", failed)
    \/ LoadMetricsDone

SettingsLoad ==
    \/ \E failed \in BOOLEAN : ServeRead("settings", failed)
    \/ LoadSettingsDone

OtherWritesRules ==
    \E area \in Areas, r \in ExtRules :
        ExternalWrite(area, STORAGE_KEY, r, AbsentMetrics, AbsentSettings)

OtherWritesMetrics ==
    \E area \in Areas, m \in ExtMetrics :
        ExternalWrite(area, METRICS_KEY, AbsentRules, m, AbsentSettings)

OtherWritesSettings ==
    \/ \E area \in Areas, st \in ExtSettings :
            ExternalWrite(area, SETTINGS_KEY, AbsentRules, AbsentMetrics, st)
    \/ \E m \in ExtMetrics, st \in ExtSettings : ExternalWriteBoth(m, st)

\* The whole page with its environment.
Next ==
    \/ RulesUi \/ RateUi \/ SetCompletes
    \/ RulesLoad \/ MetricsLoad \/ SettingsLoad
    \/ OtherWritesRules \/ OtherWritesMetrics \/ OtherWritesSettings
    \/ OnChanged

Spec == Init /\ [][Next]_vars

\* The rule list: every action that reads or writes rules, rows, nextId or a
\* redirect_rules value.  The actions left out (the hourly-rate input, the
\* settings load, other writers of settings) change none of these.
NextRules ==
    \/ RulesUi \/ SetCompletes \/ RulesLoad \/ MetricsLoad
    \/ OtherWritesRules \/ OtherWritesMetrics \/ OnChanged

SpecRules == Init /\ [][NextRules]_vars

\* Metrics and settings: every action that reads or writes metrics, settings
\* or a redirect_metrics or redirect_settings value.  The actions left out
\* (the rule events, the rules load, other writers of rules) change none of
\* these.
NextSettings ==
    \/ RateUi \/ SetCompletes \/ MetricsLoad \/ SettingsLoad
    \/ OtherWritesMetrics \/ OtherWritesSettings \/ OnChanged

SpecSettings == Init /\ [][NextSettings]_vars

\* The writes of the page: every handler that calls storageSet, the
\* completions of the calls, the rules load that renders the rows whose
\* listeners call it, and the listener the completed writes notify.
NextPage ==
    \/ RulesUi \/ RateUi \/ SetCompletes
    \/ RulesLoad \/ MetricsLoad \/ SettingsLoad
    \/ OnChanged

SpecPage == Init /\ [][NextPage]_vars

\* The store as this page and the redirect engine write it: every handler
\* that calls storageSet, the completions, the rules load that renders the
\* rows, the engine's writes of metrics, and the listener.
NextStore ==
    \/ RulesUi \/ RateUi \/ SetCompletes \/ RulesLoad
    \/ OtherWritesMetrics \/ OnChanged

SpecStore == Init /\ [][NextStore]_vars

\* The redirect engine counts a redirect: it sets redirect_metrics of the
\* local area to a payload with a larger total_redirects.
EngineIncrements ==
    \E m \in {StoredMetrics3, StoredMetrics4} :
        /\ storage["local"].metrics.total_redirects.t = "number"
        /\ m.total_redirects.n > storage["local"].metrics.total_redirects.n
        /\ ExternalWrite("local", METRICS_KEY, AbsentRules, m, AbsentSettings)

\* The startup loads, the listener and an engine that only increments.
NextCounting == RulesLoad \/ MetricsLoad \/ SettingsLoad \/ EngineIncrements \/ OnChanged

SpecCounting == Init /\ [][NextCounting]_vars

\* Metrics and settings with every read of the page: the startup loads, the
\* hourly-rate input and its write, the engine's increments and the listener.
NextConverging == NextCounting \/ RateUi \/ SetCompletes

SpecConverging == Init /\ [][NextConverging]_vars

-----------------------------------------------------------------------------
(* The loads on every stored payload: the page opens on any content of     *)
(* storage and the three startup reads complete, in any order.             *)

InitLoad == InitStore /\ HarnessIdle

NextLoad == RulesLoad \/ MetricsLoad \/ SettingsLoad

SpecLoad == InitLoad /\ [][NextLoad]_vars

-----------------------------------------------------------------------------
(* The validator on its own: validateRule applied to every draft made of   *)
(* the strings below.                                                      *)

\* "a.b", " A.B ", "a", "", "a..b", "-a.b", "a.b-", "a b.c", "a/b.c", "a:b.c", "a_b.c", "c.d", "A.B.", "a-b.c", "a?b.c"
HostInputs ==
    {<<"a", ".", "b">>, <<" ", "A", ".", "B", " ">>, <<"a">>, <<>>,
     <<"a", ".", ".", "b">>, <<"-", "a", ".", "b">>, <<"a", ".", "b", "-">>,
     <<"a", " ", "b", ".", "c">>, <<"a", "/", "b", ".", "c">>,
     <<"a", ":", "b", ".", "c">>, <<"a", "_", "b", ".", "c">>, <<"c", ".", "d">>,
     <<"A", ".", "B", ".">>, <<"a", "-", "b", ".", "c">>, <<"a", "?", "b", ".", "c">>}

\* "http://c.d", "HTTP://A.B/x", "c.d", "", "ftp://c.d/", "http:a.b", "https://a.b:443", "http://a.b./", "http://", "xx:a.b", " https://A.b ", "http://a.b:x/", "http://c.d?x", "http://a-b.c/", "http://a b/"
UrlInputs ==
    {<<"h", "t", "t", "p", ":", "/", "/", "c", ".", "d">>,
     <<"H", "T", "T", "P", ":", "/", "/", "A", ".", "B", "/", "x">>, <<"c", ".", "d">>,
     <<>>, <<"f", "t", "p", ":", "/", "/", "c", ".", "d", "/">>,
     <<"h", "t", "t", "p", ":", "a", ".", "b">>,
     <<"h", "t", "t", "p", "s", ":", "/", "/", "a", ".", "b", ":", "4", "4", "3">>,
     <<"h", "t", "t", "p", ":", "/", "/", "a", ".", "b", ".", "/">>,
     <<"h", "t", "t", "p", ":", "/", "/">>, <<"x", "x", ":", "a", ".", "b">>,
     <<" ", "h", "t", "t", "p", "s", ":", "/", "/", "A", ".", "b", " ">>,
     <<"h", "t", "t", "p", ":", "/", "/", "a", ".", "b", ":", "x", "/">>,
     <<"h", "t", "t", "p", ":", "/", "/", "c", ".", "d", "?", "x">>,
     <<"h", "t", "t", "p", ":", "/", "/", "a", "-", "b", ".", "c", "/">>,
     <<"h", "t", "t", "p", ":", "/", "/", "a", " ", "b", "/">>}

Drafts ==
    {Rule(id, enabled, host, url) :
        id \in {<<>>, <<"r", "1">>}, enabled \in BOOLEAN, host \in HostInputs,
        url \in UrlInputs}

Validate(d) ==
    /\ HarnessIdle
    /\ draft' = d
    /\ validation' = validateRule(d, makeId(nextId))
    /\ UNCHANGED storeVars

NextValidate == \E d \in Drafts : Validate(d)

SpecValidate == Init /\ [][NextValidate]_vars

-----------------------------------------------------------------------------
(* The hourly-rate validator on its own: validateHourlyRate applied to the *)
(* strings below (decimal literals of at most three decimals, and strings  *)
(* that are no number).                                                    *)

\* "", " ", "-1", "12.345", "abc", "1.005", "0", "-0", "0.005", "0.125", "0.015", "2.675", "20", " 7 ",
\* "1.5", "12.34", "-0.001", "1.", ".5", "+3", "1.2.3", "9.995", "0.995", "-", ".", "12.346", "0.004"
RateInputs ==
    {<<>>, <<" ">>, <<"-", "1">>, <<"1", "2", ".", "3", "4", "5">>,
     <<"a", "b", "c">>, <<"1", ".", "0", "0", "5">>, <<"0">>, <<"-", "0">>,
     <<"0", ".", "0", "0", "5">>, <<"0", ".", "1", "2", "5">>,
     <<"0", ".", "0", "1", "5">>, <<"2", ".", "6", "7", "5">>, <<"2", "0">>,
     <<" ", "7", " ">>, <<"1", ".", "5">>, <<"1", "2", ".", "3", "4">>,
     <<"-", "0", ".", "0", "0", "1">>, <<"1", ".">>, <<".", "5">>,
     <<"+", "3">>, <<"1", ".", "2", ".", "3">>, <<"9", ".", "9", "9", "5">>,
     <<"0", ".", "9", "9", "5">>, <<"-">>, <<".">>,
     <<"1", "2", ".", "3", "4", "6">>, <<"0", ".", "0", "0", "4">>}

RateDraft(rawValue) == [rawValue |-> rawValue]

ValidateRate(rawValue) ==
    /\ HarnessIdle
    /\ draft' = RateDraft(rawValue)
    /\ validation' = validateHourlyRate(rawValue)
    /\ UNCHANGED storeVars

NextRate == \E rawValue \in RateInputs : ValidateRate(rawValue)

SpecRate == Init /\ [][NextRate]_vars

-----------------------------------------------------------------------------
(* The hostname validator on its own: validateHostname applied to the      *)
(* strings of HostInputs and those below.                                  *)

\* "a.b.c", "a-.b", "a.-b", ".a", "a.", " ", "a--b.c", "A-1.B2", "0.1", "a.b/c", "-", "a.b.c.d", "B.A"
HostnameInputs ==
    HostInputs \cup
    {<<"a", ".", "b", ".", "c">>, <<"a", "-", ".", "b">>,
     <<"a", ".", "-", "b">>, <<".", "a">>, <<"a", ".">>, <<" ">>,
     <<"a", "-", "-", "b", ".", "c">>, <<"A", "-", "1", ".", "B", "2">>,
     <<"0", ".", "1">>, <<"a", ".", "b", "/", "c">>, <<"-">>,
     <<"a", ".", "b", ".", "c", ".", "d">>, <<"B", ".", "A">>}

HostDraft(hostname) == [hostname |-> hostname]

ValidateHost(hostname) ==
    /\ HarnessIdle
    /\ draft' = HostDraft(hostname)
    /\ validation' = validateHostname(hostname)
    /\ UNCHANGED storeVars

NextHost == \E hostname \in HostnameInputs : ValidateHost(hostname)

SpecHost == Init /\ [][NextHost]_vars

-----------------------------------------------------------------------------
(* The time-saved summary: renderMetricsSummary's duration for a redirect  *)
(* count (lines 230-233), with minutes counted in tenths.                  *)

\* 17.5 minutes, in tenths of a minute.
MINUTES_SAVED_PER_REDIRECT == 175

\* Math.round(x) for x >= 0 given as num / den: the integer at or just above
\* x - 0.5.
MathRound(num, den) == (2 * num + den) \div (2 * den)

\* The text formatDurationFromMinutes returns, as its form ("m": `${x}m`,
\* "h": `${whole}h` or `${whole}h ${part}m`, "d": `${whole}d` or
\* `${whole}d ${part}h`), its numbers and whether the second part is printed.
\* In form "m" whole is totalMinutes.toFixed(1) in tenths.
Duration(form, whole, part, hasPart) ==
    [form |-> form, whole |-> whole, part |-> part, hasPart |-> hasPart]

\* formatDurationFromMinutes(totalMinutes) for totalMinutes = tenths / 10, a
\* multiple of 0.5 (lines 207-221).
formatDurationFromMinutes(tenths) ==
    IF tenths < 600 THEN Duration("m", tenths, 0, FALSE)
    ELSE IF tenths < 14400
         THEN LET hours == tenths \div 600
                  minutes == MathRound(tenths % 600, 10)
              IN  Duration("h", hours, IF minutes > 0 THEN minutes ELSE 0, minutes > 0)
    ELSE LET days == tenths \div 14400
             hours == MathRound(tenths % 14400, 600)
         IN  Duration("d", days, IF hours > 0 THEN hours ELSE 0, hours > 0)

\* renderMetricsSummary's time-saved text for a redirect count.
RenderTimeSaved(total_redirects) ==
    /\ HarnessIdle
    /\ draft' = [total_redirects |-> total_redirects]
    /\ validation' = formatDurationFromMinutes(total_redirects * MINUTES_SAVED_PER_REDIRECT)
    /\ UNCHANGED storeVars

NextDuration == \E total_redirects \in 0..MaxRedirects : RenderTimeSaved(total_redirects)

SpecDuration == Init /\ [][NextDuration]_vars

-----------------------------------------------------------------------------
(* Properties.                                                             *)

Last(q) == q[Len(q)]

\* Steps of the page, told by what only they change.
UiStep == uiEvents' = uiEvents + 1
IssuesWrite == Len(writes') = Len(writes) + 1
NotificationStep == Len(notifs') = Len(notifs) - 1

\* C1 as stated: an add-rule submission or a per-row edit (enabled toggle,
\* hostname input, URL input) whose draft fails validateRule leaves the rule
\* list unchanged and issues no storage write.
C1_InvalidDraftNeverPersisted ==
    [][(/\ UiStep
        /\ lastOp'.op \in {"add", "toggle", "editSource", "editTarget"}
        /\ ~lastOp'.valid)
       => (rules' = rules /\ writes' = writes)]_vars

\* C1 amended: an add-rule submission, a hostname input or a URL input whose
\* draft fails validateRule leaves the rule list unchanged and issues no
\* storage write; of the events that carry a draft only the enabled toggle
\* changes the list or issues a write on a draft that fails.
C1_InvalidDraftPersistedOnlyByToggle ==
    [][UiStep =>
        /\ (lastOp'.op \in {"add", "editSource", "editTarget"} /\ ~lastOp'.valid)
                => (rules' = rules /\ writes' = writes)
        /\ (/\ lastOp'.op \in {"add", "toggle", "editSource", "editTarget"}
            /\ (rules' # rules \/ writes' # writes))
                => (lastOp'.valid \/ lastOp'.op = "toggle")]_vars

\* A hostname that fails was typed into the row of a stored rule: the row
\* shows it, the list still holds the stored hostname and nothing is written.
C1_Witness ==
    /\ lastOp = Op("editSource", FALSE)
    /\ writes = <<>>
    /\ \E i \in 1..Len(rows) :
            /\ rows[i].source = HostNoDot
            /\ i <= Len(rules)
            /\ rules[i].source_hostname = HostAB

\* C2: whenever validateRule accepts a draft, the hostname of the normalized
\* target_url differs from the normalized source_hostname, compared without
\* regard to case; and a draft whose hostname and URL each validate and have
\* the same canonical hostname is rejected with the self-loop error.
C2_AcceptedRuleIsNoSelfLoop ==
    LET hostResult == validateHostname(draft.source_hostname)
        targetResult == validateTargetUrl(draft.target_url)
    IN  /\ validation.valid =>
              toLowerCase(ParseUrl(validation.normalized.target_url).hostname)
                  # toLowerCase(validation.normalized.source_hostname)
        /\ (/\ ~HarnessIdle
            /\ hostResult.valid
            /\ targetResult.valid
            /\ targetResult.hostname = hostResult.value)
                => (~validation.valid /\ validation.targetError = SelfLoopError)

\* " A.B " with "HTTP://A.B/x" is rejected as a self-loop: the two name the
\* same host only once both are normalized.
C2_Witness ==
    /\ draft.source_hostname = <<" ", "A", ".", "B", " ">>
    /\ draft.target_url = UrlABUpper
    /\ ~validation.valid
    /\ validation.targetError = SelfLoopError

\* C3: the listener replaces metrics with normalizeMetrics(newValue) on every
\* notification of redirect_metrics in the local area, replaces settings with
\* normalizeSettings(newValue) exactly when redirect_settings changed in the
\* area this page uses, and otherwise leaves metrics and settings as they are.
C3_ListenerReconcilesMetricsAndSettings ==
    [][NotificationStep =>
        LET n == Head(notifs) IN
        /\ metrics' = IF n.area = "local" /\ n.metrics.has
                      THEN normalizeMetrics(n.metrics.newValue) ELSE metrics
        /\ settings' = IF n.area = getStorageArea /\ n.settings.has
                       THEN normalizeSettings(n.settings.newValue) ELSE settings]_vars

\* A page that uses the sync area was notified of metrics and settings set
\* together in the local area: it took the metrics and left its settings.
C3_Witness ==
    /\ hasSync
    /\ lastOp.op = "onChanged"
    /\ notifs = <<>>
    /\ storage["local"].metrics = StoredMetrics3
    /\ storage["local"].settings = StoredSettingsNull
    /\ metrics = normalizeMetrics(StoredMetrics3)
    /\ settings # normalizeSettings(StoredSettingsNull)

\* C4: no notification changes the in-process rule list; every write of
\* redirect_rules carries the in-process list whole, and when it completes
\* the stored value is that list, whatever another process had stored.
C4_RulesNeverReconciled ==
    [][/\ NotificationStep => rules' = rules
       /\ (IssuesWrite /\ Last(writes').key = STORAGE_KEY)
            => Last(writes').rules = StoredRules(rules')
       /\ (lastOp'.op = "writeDone" /\ Len(writes') = Len(writes) - 1)
            => \E k \in 1..Len(writes) :
                  /\ writes' = RemoveAt(writes, k)
                  /\ writes[k].key = STORAGE_KEY
                        => storage'[getStorageArea].rules = writes[k].rules]_vars

\* Another process set redirect_rules in the area of this page, the page was
\* notified, and its later add stored its own list over that value.
C4_Witness ==
    /\ ~hasSync
    /\ extWrites = 1
    /\ storage["local"].metrics = StoredMetrics2
    /\ notifs = <<>>
    /\ writes = <<>>
    /\ lastOp.op = "onChanged"
    /\ storage["local"].rules = StoredRules(rules)
    /\ \E i \in 1..Len(rules) : rules[i].id = makeId(1)

\* Steps that complete a startup read of key k, or a storage.set.
LoadStep(k) == reads.state[k] \in {"served", "failed"} /\ reads'.state[k] = "done"
FailedLoadStep(k) == reads.state[k] = "failed" /\ reads'.state[k] = "done"
WriteFailedStep ==
    /\ lastOp'.op = "writeFailed"
    /\ <<lastOp, writes, formMessage>>' # <<lastOp, writes, formMessage>>

\* C5: when a storage write fails (after an add, edit, toggle, delete or
\* accepted hourly-rate change) the failure is shown as an error message of
\* the handler that issued it, the call leaves the pending writes and none is
\* issued in its place (no retry), and the in-process rules and settings and
\* the stored values are as they were before the failure (no rollback to the
\* stored value).
C5_FailedWriteReportedNotRetriedNotRolledBack ==
    [][WriteFailedStep =>
        \E k \in 1..Len(writes) :
            /\ writes' = RemoveAt(writes, k)
            /\ formMessage'.type = "error"
            /\ formMessage'.text =
                  (CASE writes[k].by = "add" -> "Failed to save rule"
                     [] writes[k].by = "update" -> "Failed to save rules"
                     [] writes[k].by = "delete" -> "Failed to delete rule"
                     [] writes[k].by = "rate" -> "Failed to save hourly rate")
            /\ rules' = rules
            /\ settings' = settings
            /\ storage' = storage
            /\ notifs' = notifs]_vars

\* The rules load found nothing stored, a rule was added and its write failed:
\* the error is shown, no write is pending and the added rule stays in the
\* in-process list, which storage does not hold.
C5_Witness ==
    /\ lastOp.op = "writeFailed"
    /\ formMessage = [text |-> "Failed to save rule", type |-> "error"]
    /\ writes = <<>>
    /\ reads.state["rules"] = "done"
    /\ Len(rules) = 1
    /\ rules[1].id = makeId(1)
    /\ storage[getStorageArea].rules = AbsentRules

\* C6: a failed storage read in loadRules, loadMetrics or loadSettings resolves
\* as no data; the load completes without an error message and leaves the
\* zero value in process: the empty rule list, {total_redirects: 0,
\* per_rule: {}}, {hourly_rate: null}.
C6_FailedReadIsNoData ==
    [][/\ FailedLoadStep("rules") =>
            /\ reads.rules = AbsentRules
            /\ rules' = <<>>
            /\ formMessage' = formMessage
       /\ FailedLoadStep("metrics") =>
            /\ reads.metrics = AbsentMetrics
            /\ metrics' = [total_redirects |-> 0, per_rule |-> JObj(0)]
            /\ formMessage' = formMessage
       /\ FailedLoadStep("settings") =>
            /\ reads.settings = AbsentSettings
            /\ settings' = [hourly_rate |-> JNull]
            /\ formMessage' = formMessage]_vars

\* All three reads failed while storage held a rule, metrics and a rate, the
\* settings read after the user had typed 12.345: the loads are done, the
\* values are the zero values and no message is shown.
C6_Witness ==
    /\ \A k \in {"rules", "metrics", "settings"} : reads.state[k] = "done"
    /\ lastOp = Op("loadSettings", TRUE)
    /\ uiEvents = 1
    /\ Len(writes) = 1
    /\ writes[1].settings.hourly_rate = JNum(12350)
    /\ storage[getStorageArea].rules = StoredValidRule
    /\ storage["local"].metrics = StoredMetrics2
    /\ storage[getStorageArea].settings = StoredSettings20
    /\ rules = <<>>
    /\ metrics = ZeroMetrics
    /\ settings = UnsetSettings
    /\ formMessage = NoMessage

\* C7: every persistRules call writes, under redirect_rules alone, the whole
\* in-process list as the handler has just left it; a call made with the list
\* unchanged since the write that storage holds writes that same content
\* again, and a completed write leaves exactly its payload in storage.
C7_PersistRulesWritesWholeCurrentList ==
    [][/\ (IssuesWrite /\ Last(writes').key = STORAGE_KEY) =>
            /\ writes' = Append(writes, Last(writes'))
            /\ Last(writes').rules = StoredRules(rules')
            /\ Last(writes').settings = AbsentSettings
            /\ (rules' = rules /\ storage[getStorageArea].rules = StoredRules(rules))
                  => Last(writes').rules = storage[getStorageArea].rules
       /\ (lastOp'.op = "writeDone" /\ writes' # writes) =>
            \E k \in 1..Len(writes) :
                /\ writes' = RemoveAt(writes, k)
                /\ writes[k].key = STORAGE_KEY =>
                      storage'[getStorageArea].rules = writes[k].rules]_vars

\* A rule was added and its write completed; the user then retyped the
\* hostname as " A.B", which normalizes to the rule the list holds: the second
\* call is pending with the content storage already has.
C7_Witness ==
    /\ uiEvents = 2
    /\ lastOp = Op("editSource", TRUE)
    /\ Len(rules) = 1
    /\ rules[1].id = makeId(1)
    /\ Len(writes) = 1
    /\ writes[1].key = STORAGE_KEY
    /\ writes[1].rules = StoredRules(rules)
    /\ writes[1].rules = storage[getStorageArea].rules

\* A stored item that is a serialized rule, and the rule it serializes.
IsStoredRule(item) ==
    /\ item.v = JObj(0)
    /\ item.id.t = "string" /\ item.enabled.t = "boolean"
    /\ item.source_hostname.t = "string" /\ item.target_url.t = "string"
RuleOf(item) == Rule(item.id.s, item.enabled.b, item.source_hostname.s, item.target_url.s)
\* A rule validateRule returns as it is given.
IsNormalized(r) ==
    LET v == validateRule(r, makeId(nextId)) IN v.valid /\ v.normalized = r

\* C8: round trip.  When loadRules completes on a stored list of serialized
\* rules, every rule of it that validateRule had normalized is loaded at the
\* same position with the same id, enabled, source_hostname and target_url.
C8_RoundTrip ==
    [][(reads.state["rules"] = "served" /\ reads'.state["rules"] = "done") =>
        LET stored == StoredArray(reads.rules) IN
        (\A i \in 1..Len(stored) : IsStoredRule(stored[i])) =>
            /\ Len(rules') = Len(stored)
            /\ \A i \in 1..Len(stored) :
                  IsNormalized(RuleOf(stored[i])) =>
                      /\ rules'[i].id = stored[i].id.s
                      /\ rules'[i].enabled = stored[i].enabled.b
                      /\ rules'[i].source_hostname = stored[i].source_hostname.s
                      /\ rules'[i].target_url = stored[i].target_url.s]_vars

\* The rule added from " A.B" and "http://c.d", then disabled, was persisted
\* before the startup read was served, and loadRules has loaded it back.
C8_Witness ==
    /\ lastOp = Op("loadRules", TRUE)
    /\ uiEvents = 2
    /\ writes = <<>>
    /\ rules = <<Rule(makeId(1), FALSE, HostAB,
                      <<"h", "t", "t", "p", ":", "/", "/", "c", ".", "d", "/">>)>>
    /\ storage[getStorageArea].rules = StoredRules(rules)

\* C9 as stated: loadRules never drops or corrects a stored rule.  When the
\* load completes on a served read, the in-process list has one rule per item
\* of the stored array, in the same order, with a stored id, source_hostname
\* and target_url kept, an id minted only when missing, enabled false when
\* missing and missing strings empty; a missing or non-array value gives the
\* empty list.
C9_LoadKeepsEveryStoredItem ==
    [][(reads.state["rules"] = "served" /\ reads'.state["rules"] = "done") =>
        LET stored == IF reads.rules.v.t = "array" THEN reads.rules.items ELSE <<>> IN
        /\ Len(rules') = Len(stored)
        /\ \A i \in 1..Len(stored) :
              /\ stored[i].id.t = "string" /\ stored[i].id.s # <<>>
                    => rules'[i].id = stored[i].id.s
              /\ stored[i].id.t = "undefined"
                    => \E k \in 1..nextId' : rules'[i].id = makeId(k)
              /\ stored[i].enabled.t = "undefined" => ~rules'[i].enabled
              /\ stored[i].source_hostname.t = "string"
                    => rules'[i].source_hostname = stored[i].source_hostname.s
              /\ stored[i].source_hostname.t = "undefined"
                    => rules'[i].source_hostname = <<>>
              /\ stored[i].target_url.t = "string"
                    => rules'[i].target_url = stored[i].target_url.s
              /\ stored[i].target_url.t = "undefined"
                    => rules'[i].target_url = <<>>]_vars

\* The stored array holds a valid rule and null: the load has thrown on the
\* null item, the list is empty and the load's error is shown.
C9_Witness ==
    /\ storage[getStorageArea].rules = StoredNullItem
    /\ reads.state["rules"] = "done"
    /\ lastOp = Op("loadRules", FALSE)
    /\ rules = <<>>
    /\ rows = <<>>
    /\ formMessage = [text |-> "Failed to load rules", type |-> "error"]

\* C10: an hourly-rate input that fails validateHourlyRate leaves in-process
\* settings unchanged and issues no storage write; an accepted input replaces
\* in-process settings with {hourly_rate: the validated value} and issues one
\* write, of that settings object under redirect_settings.
C10_RateInputFrame ==
    [][(UiStep /\ lastOp'.op = "rate") =>
        IF ~lastOp'.valid
        THEN settings' = settings /\ writes' = writes
        ELSE /\ \E rawValue \in UiRates :
                  /\ validateHourlyRate(rawValue).valid
                  /\ settings' = [hourly_rate |-> validateHourlyRate(rawValue).value]
             /\ Len(writes') = Len(writes) + 1
             /\ writes' = Append(writes, Last(writes'))
             /\ Last(writes').key = SETTINGS_KEY
             /\ Last(writes').settings = SettingsPayload(JObj(0), settings'.hourly_rate)
             /\ Last(writes').rules = AbsentRules]_vars

\* The user typed "12.345" while the stored rate 20 was in process: settings
\* hold 12.35 and the write of {hourly_rate: 12.35} is pending.
C10_Witness ==
    /\ lastOp = Op("rate", TRUE)
    /\ reads.state["settings"] = "done"
    /\ settings = [hourly_rate |-> JNum(12350)]
    /\ Len(writes) = 1
    /\ writes[1].key = SETTINGS_KEY
    /\ writes[1].settings = SettingsPayload(JObj(0), JNum(12350))
    /\ storage[getStorageArea].settings = StoredSettings20

\* C11 as stated: normalizeSettings returns {hourly_rate: null} for every
\* payload that is not an object or whose hourly_rate is not a finite
\* non-negative number (null, absent, a string, a boolean), and passes a
\* finite non-negative number through unchanged.  Stated of the settings the
\* load leaves for the payload it was served.
C11_NormalizeSettingsOnlyPassesNumbers ==
    [][(reads.state["settings"] = "served" /\ reads'.state["settings"] = "done") =>
        LET raw == reads.settings IN
        settings' =
            IF /\ raw.v.t = "object"
               /\ raw.hourly_rate.t = "number"
               /\ raw.hourly_rate.n >= 0
            THEN [hourly_rate |-> raw.hourly_rate]
            ELSE [hourly_rate |-> JNull]]_vars

\* Storage held {hourly_rate: null} and loadSettings has completed on it: the
\* in-process rate is the number 0.
C11_Witness ==
    /\ storage[getStorageArea].settings = StoredSettingsNull
    /\ reads.state["settings"] = "done"
    /\ lastOp = Op("loadSettings", TRUE)
    /\ settings = [hourly_rate |-> JNum(0)]

\* C12 as stated: in every reachable state the in-process metrics are
\* well-formed whatever storage holds: total_redirects is a non-negative
\* number and per_rule is a mapping, and once loadMetrics has completed on a
\* payload that is not an object (null included) or is {} the value is
\* {total_redirects: 0, per_rule: {}}.
C12_MetricsWellFormed ==
    /\ metrics.total_redirects >= 0
    /\ metrics.per_rule.t = "object"
    /\ (/\ reads.state["metrics"] = "done"
        /\ \/ storage["local"].metrics.v.t # "object"
           \/ storage["local"].metrics = StoredMetricsEmpty)
          => metrics = [total_redirects |-> 0, per_rule |-> JObj(0)]

\* Storage held {total_redirects: -1, per_rule: {}} and loadMetrics has
\* completed on it: the in-process count is -1.
C12_Witness ==
    /\ storage["local"].metrics = StoredMetricsNegative
    /\ reads.state["metrics"] = "done"
    /\ lastOp = Op("loadMetrics", TRUE)
    /\ metrics.total_redirects = -1000

\* C13: this page never writes metrics.  Every storage write it has in flight
\* has key redirect_rules or redirect_settings, the completion of a write
\* leaves the stored metrics of both areas as they were, and the stored
\* metrics change only in a step of another process.
C13_NeverWritesMetrics ==
    [][/\ \A i \in 1..Len(writes') : writes'[i].key \in {STORAGE_KEY, SETTINGS_KEY}
       /\ Len(writes') < Len(writes) =>
              \A a \in Areas : storage'[a].metrics = storage[a].metrics
       /\ (\E a \in Areas : storage'[a].metrics # storage[a].metrics) =>
              extWrites' = extWrites + 1]_vars

\* The page has added a rule and set the rate 12.35, both writes have
\* completed, and the engine has written metrics: the stored metrics are the
\* engine's.
C13_Witness ==
    /\ uiEvents = 2
    /\ extWrites = 1
    /\ writes = <<>>
    /\ storage["local"].metrics = StoredMetrics3
    /\ storage[getStorageArea].settings = SettingsPayload(JObj(0), JNum(12350))
    /\ Len(storage[getStorageArea].rules.items) = 1
    /\ storage[getStorageArea].rules.items[1].id = JStr(makeId(1))

\* The inputs that are no number, and those that are a negative number.
NonNumericRates ==
    {<<"a", "b", "c">>, <<"1", ".", "2", ".", "3">>, <<"-">>, <<".">>}
NegativeRates ==
    {<<"-", "1">>, <<"-", "0", ".", "0", "0", "1">>}

\* C14: validateHourlyRate accepts empty or whitespace-only input with value
\* null, rejects non-numeric input as not a number, rejects every negative
\* value, and for every other numeric input returns the value rounded to 2
\* decimals, "12.345" giving 12.35: a multiple of 0.01 within 0.005 of the
\* input.  Every accepted value is null or a non-negative number of at most 2
\* decimals.
C14_HourlyRateValidation ==
    draft # NoRule =>
        LET raw == draft.rawValue
            v == validation
        IN  /\ raw \in {<<>>, <<" ">>} => v.valid /\ v.value = JNull
            /\ raw \in NonNumericRates =>
                  ~v.valid /\ v.error = "Hourly rate must be a valid number."
            /\ raw \in NegativeRates =>
                  ~v.valid /\ v.error = "Hourly rate cannot be negative."
            /\ raw \notin {<<>>, <<" ">>} \cup NonNumericRates \cup NegativeRates =>
                  /\ v.valid
                  /\ v.value.t = "number"
                  /\ v.value.n - StringToNumber(raw).n \in -5..5
            /\ raw = <<"1", "2", ".", "3", "4", "5">> => v.value = JNum(12350)
            /\ v.valid =>
                  \/ v.value = JNull
                  \/ v.value.t = "number" /\ v.value.n >= 0 /\ v.value.n % 10 = 0

\* "12.345" has been validated: accepted with the value 12.35.
C14_Witness ==
    /\ draft = RateDraft(<<"1", "2", ".", "3", "4", "5">>)
    /\ validation = [valid |-> TRUE, value |-> JNum(12350), error |-> ""]

\* A lowercase hostname of at least two dot-separated labels, each non-empty,
\* of characters in [a-z0-9-] and neither starting nor ending with a hyphen,
\* told character by character: the string is not empty, has a dot, has only
\* these characters, neither starts nor ends with a dot or a hyphen, and has
\* no dot next to a dot or to a hyphen.
WellFormedHost(h) ==
    /\ h # <<>>
    /\ \E i \in 1..Len(h) : h[i] = "."
    /\ \A i \in 1..Len(h) : h[i] \in LowerLetters \cup Digits \cup {"-", "."}
    /\ h[1] \notin {".", "-"}
    /\ h[Len(h)] \notin {".", "-"}
    /\ \A i \in 1..(Len(h) - 1) :
          /\ h[i] = "." => h[i + 1] \notin {".", "-"}
          /\ h[i + 1] = "." => h[i] # "-"

\* C15: every hostname value validateHostname returns as valid is lowercase,
\* has at least two dot-separated labels, each non-empty, of characters in
\* [a-z0-9-] and neither starting nor ending with a hyphen; every input that
\* violates one of these after trimming and lowercasing is rejected.
C15_AcceptedHostnameWellFormed ==
    draft # NoRule =>
        /\ validation.valid => WellFormedHost(validation.value)
        /\ ~WellFormedHost(toLowerCase(trim(draft.hostname))) => ~validation.valid

\* " A.B " has been validated and accepted as "a.b".
C15_Witness ==
    /\ draft = HostDraft(<<" ", "A", ".", "B", " ">>)
    /\ validation.valid
    /\ validation.value = <<"a", ".", "b">>

\* C16 as stated: with a stored total_redirects that never decreases (the
\* engine only increments it), the in-process total_redirects never
\* decreases, under every interleaving of the completion of loadMetrics and
\* the change notifications.
C16_InProcessTotalNeverDecreases ==
    [][metrics'.total_redirects >= metrics.total_redirects]_vars

\* The engine raised the stored count from 2 to 3 after the startup read had
\* been answered with 2; the notification was delivered first and loadMetrics
\* completed after it: nothing is in flight and the in-process count is 2.
C16_Witness ==
    /\ storage["local"].metrics = StoredMetrics3
    /\ extWrites = 1
    /\ notifs = <<>>
    /\ reads.state["metrics"] = "done"
    /\ lastOp = Op("loadMetrics", TRUE)
    /\ metrics.total_redirects = 2000

\* C17 as stated: settings echo.  After this page has accepted an hourly-rate
\* input and written the settings object, the delivery of the notification
\* of its own write leaves in process the hourly_rate that was accepted and
\* written; an accepted unset rate (null) is still null after the echo.
\* Stated where this page is the only writer, so that every notification of
\* settings is the echo of a write of its own.
C17_SettingsEchoKeepsAccepted ==
    [][(NotificationStep /\ Head(notifs).settings.has) =>
        settings'.hourly_rate = Head(notifs).settings.newValue.hourly_rate]_vars

\* The user cleared the rate field while 20 was stored; the write of
\* {hourly_rate: null} has completed and its notification has been delivered:
\* the in-process rate is the number 0.
C17_Witness ==
    /\ uiEvents = 1
    /\ writes = <<>>
    /\ notifs = <<>>
    /\ lastOp = Op("onChanged", TRUE)
    /\ storage[getStorageArea].settings = StoredSettingsNull
    /\ settings = [hourly_rate |-> JNum(0)]

\* C18 as stated: a rule accepted by the add-rule workflow stays in the
\* in-process list under its id until an explicit delete of that id, under
\* every interleaving of the rule events with the completion of the startup
\* loadRules and with notifications.  Stated of every id of the list: a step
\* keeps it, or is the click of the delete button of a row with that id.
C18_RuleStaysUntilDeleted ==
    [][\A i \in 1..Len(rules) :
          \/ (\E j \in 1..Len(rules') : rules'[j].id = rules[i].id)
          \/ /\ UiStep
             /\ lastOp'.op = "delete"
             /\ \E k \in 1..Len(rows) : rows[k].id = rules[i].id]_vars

\* A rule was added and its write completed while the startup read, answered
\* before that with no rules, had not resumed loadRules; the load has now
\* completed: storage holds the rule, the message is "Rule added." and the
\* in-process list is empty.
C18_Witness ==
    /\ uiEvents = 1
    /\ writes = <<>>
    /\ lastOp = Op("loadRules", TRUE)
    /\ formMessage = [text |-> "Rule added.", type |-> "success"]
    /\ Len(storage[getStorageArea].rules.items) = 1
    /\ storage[getStorageArea].rules.items[1].id = JStr(makeId(1))
    /\ rules = <<>>
    /\ rows = <<>>

\* No storage read, write or notification is in flight and no write has
\* failed (a failed write leaves its error message).
Quiescent ==
    /\ \A k \in {"rules", "metrics", "settings"} : reads.state[k] = "done"
    /\ writes = <<>>
    /\ notifs = <<>>
    /\ formMessage.type # "error"

\* C19 as stated: convergence.  In every state where no storage read, write
\* or notification is in flight and no write has failed, the in-process
\* metrics equal normalizeMetrics of the stored redirect_metrics and the
\* in-process settings equal normalizeSettings of the stored
\* redirect_settings.
C19_Convergence ==
    Quiescent =>
        /\ metrics = normalizeMetrics(storage["local"].metrics)
        /\ settings = normalizeSettings(storage[getStorageArea].settings)

\* Nothing is in flight, no write was issued, storage holds 3 redirects and
\* the page holds 2: loadMetrics resumed with the answer read before the
\* engine's write, after the listener had taken the 3.
C19_Witness ==
    /\ Quiescent
    /\ uiEvents = 0
    /\ extWrites = 1
    /\ storage["local"].metrics = StoredMetrics3
    /\ metrics.total_redirects = 2000
    /\ settings = [hourly_rate |-> JNum(20000)]

\* C20 as stated: for every redirect count n >= 0 the duration rendered for
\* n * 17.5 minutes is in range for its form: below 60 minutes, one-decimal
\* minutes; from 60 to below 1440, whole hours and a minutes part between 1
\* and 59, or none; from 1440 on, whole days and an hours part between 1 and
\* 23, or none (never "60m", never "24h").
C20_DurationPartsInRange ==
    draft # NoRule =>
        LET tenths == draft.total_redirects * MINUTES_SAVED_PER_REDIRECT
            out == validation
        IN  /\ tenths < 600 => out.form = "m" /\ out.whole = tenths
            /\ (tenths >= 600 /\ tenths < 14400) =>
                  /\ out.form = "h"
                  /\ out.whole = tenths \div 600
                  /\ out.hasPart => out.part \in 1..59
            /\ tenths >= 14400 =>
                  /\ out.form = "d"
                  /\ out.whole = tenths \div 14400
                  /\ out.hasPart => out.part \in 1..23

\* 163 redirects, 2852.5 minutes, have been rendered as "1d 24h".
C20_Witness ==
    /\ draft = [total_redirects |-> 163]
    /\ validation = Duration("d", 1, 24, TRUE)

=============================================================================
